---- MODULE Spec2Model ----
(***************************************************************************)
(* Model of PINN_wave_equation.ipynb: the residual evaluator               *)
(* wave_pinn_loss, gradient clipping as called by the training loop, the   *)
(* script-level training loop itself, and calculate_accuracy.              *)
(*                                                                         *)
(* Numbers.  A float32 value is a record: a finite value on an integer     *)
(* grid, +inf / -inf, or NaN.  Finite values whose magnitude exceeds       *)
(* MaxFloat overflow to an infinity, as float32 values beyond 3.4e38 do.   *)
(* The grid unit depends on the kind of quantity:                          *)
(*   - network outputs, derivatives and residuals: 1 unit = 1e-3;          *)
(*   - squared residuals and losses:               1 unit = 1e-6,          *)
(*     so a product of two residuals is exact and the literal 1e-6 of the  *)
(*     velocity term is one unit;                                          *)
(*   - gradient components and norms:              GradScale units = 1.0.  *)
(* The network (class PINN) and Adam are library-backed collaborators: the *)
(* network is a relation from the parameter state to the values it and its *)
(* derivatives take on the batch, Adam a step counter and a moment.        *)
(***************************************************************************)
EXTENDS Integers, Sequences, FiniteSets, TLC

VARIABLES pc, it, epoch, params, opt, grad, loss, ev,
          x_train, t_train, x_req, t_req, batch_grad, out,
          x_test, t_test, u_pred, mse, relative_error

\* the state of training, and the state of the accuracy test after it
trainvars == <<it, epoch, params, opt, grad, loss, ev,
               x_train, t_train, x_req, t_req, batch_grad, out>>
testvars == <<x_test, t_test, u_pred, mse, relative_error>>

vars == <<pc, trainvars, testvars>>

(***************************************************************************)
(* Bounds of the model.                                                    *)
(***************************************************************************)
\* largest finite magnitude of the number grid (stands for float32's max)
MaxFloat == 2000000000
\* number of collocation points in the batch (num_points in the notebook)
BatchLen == 2
\* number of trainable parameters of the network
NumParams == 2
\* grid units per 1.0 for gradient components
GradScale == 10
\* number of points of the test grid (100 in the notebook)
TestLen == 2

(***************************************************************************)
(* Program constants.                                                      *)
(***************************************************************************)
c == 1
num_epochs == 5000
ReportEvery == 500
max_norm == 1
\* the literal 1e-6 of velocity_loss, in loss units of 1e-6
VelocityEps == 1
\* 1 / 1e-6: the reciprocal of the constant clip_grad_norm_ adds to the norm
ClipEpsInv == 1000000

(***************************************************************************)
(* float32 values and their arithmetic.                                    *)
(***************************************************************************)
Fin(n) == [k |-> "fin", v |-> n]
NaN == [k |-> "nan", v |-> 0]
PosInf == [k |-> "inf", v |-> 1]
NegInf == [k |-> "inf", v |-> -1]

IsNaN(a) == a.k = "nan"
IsInf(a) == a.k = "inf"
IsFinite(a) == a.k = "fin"

Abs(n) == IF n < 0 THEN -n ELSE n
Sign(n) == IF n < 0 THEN -1 ELSE IF n > 0 THEN 1 ELSE 0
Inf(s) == IF s < 0 THEN NegInf ELSE PosInf

FNeg(a) == IF IsNaN(a) THEN NaN ELSE [k |-> a.k, v |-> -a.v]

\* a + b, overflowing to an infinity beyond MaxFloat
FAdd(a, b) ==
    IF IsNaN(a) \/ IsNaN(b) THEN NaN
    ELSE IF IsInf(a) /\ IsInf(b) THEN (IF a.v = b.v THEN a ELSE NaN)
    ELSE IF IsInf(a) THEN a
    ELSE IF IsInf(b) THEN b
    ELSE IF a.v > 0 /\ b.v > MaxFloat - a.v THEN PosInf
    ELSE IF a.v < 0 /\ b.v < (-MaxFloat) - a.v THEN NegInf
    ELSE Fin(a.v + b.v)

FSub(a, b) == FAdd(a, FNeg(b))

\* a * b, overflowing to an infinity beyond MaxFloat
FMul(a, b) ==
    IF IsNaN(a) \/ IsNaN(b) THEN NaN
    ELSE IF IsInf(a) \/ IsInf(b)
         THEN (IF a.v = 0 \/ b.v = 0 THEN NaN ELSE Inf(Sign(a.v) * Sign(b.v)))
    ELSE IF a.v = 0 \/ b.v = 0 THEN Fin(0)
    ELSE IF Abs(a.v) > MaxFloat \div Abs(b.v) THEN Inf(Sign(a.v) * Sign(b.v))
    ELSE Fin(a.v * b.v)

\* a ** 2
FSquare(a) == FMul(a, a)

\* a / n for a count n >= 1
FDivN(a, n) == IF IsFinite(a) THEN Fin(a.v \div n) ELSE a

RECURSIVE FSumFrom(_, _)
FSumFrom(s, i) == IF i > Len(s) THEN Fin(0) ELSE FAdd(s[i], FSumFrom(s, i + 1))

\* torch.mean over a batch
FMean(s) == FDivN(FSumFrom(s, 1), Len(s))

AllFinite(s) == \A i \in 1..Len(s) : IsFinite(s[i])


(***************************************************************************)
(* The collocation batch.  A coordinate k stands for the point k/6 of      *)
(* [0,1]; SinPi is torch.sin(np.pi * x) at such a point, in units of 1e-3. *)
(***************************************************************************)
SinPiTable == <<0, 500, 866, 1000, 866, 500, 0>>
Coords == 0..(Len(SinPiTable) - 1)
SinPi(x) == Fin(SinPiTable[x + 1])

Const(v) == [i \in 1..BatchLen |-> v]
FirstRest(a, b) == [i \in 1..BatchLen |-> IF i = 1 THEN a ELSE b]

(***************************************************************************)
(* wave_pinn_loss.  e holds what the network and torch.autograd.grad       *)
(* return on the batch: u_tt, u_xx at (x,t); u0, u_t0 at (x,0); u_left at  *)
(* (0,t); u_right at (1,t).                                                *)
(***************************************************************************)
physics_loss(e) ==
    FMean([i \in 1..BatchLen |->
             FSquare(FSub(e.u_tt[i], FMul(FSquare(Fin(c)), e.u_xx[i])))])

\* faulty variant: the displacement residual is not squared
initial_loss_unsquared(e, x) ==
    FMean([i \in 1..BatchLen |-> FSub(e.u0[i], SinPi(x[i]))])

initial_loss(e, x) ==
    FMean([i \in 1..BatchLen |-> FSquare(FSub(e.u0[i], SinPi(x[i])))])

\* faulty variant: the constant 1e-6 is left out
velocity_loss_no_floor(e) ==
    FMean([i \in 1..BatchLen |-> FSquare(e.u_t0[i])])

velocity_loss(e) ==
    FMean([i \in 1..BatchLen |-> FAdd(FSquare(e.u_t0[i]), Fin(VelocityEps))])

\* faulty variant: the boundary at x = 1 is left out
boundary_loss_left_only(e) ==
    FMean([i \in 1..BatchLen |-> FSquare(e.u_left[i])])

boundary_loss(e) ==
    FAdd(FMean([i \in 1..BatchLen |-> FSquare(e.u_left[i])]),
         FMean([i \in 1..BatchLen |-> FSquare(e.u_right[i])]))

total_loss(e, x) ==
    FAdd(FAdd(FAdd(physics_loss(e), initial_loss(e, x)), velocity_loss(e)),
         boundary_loss(e))

\* faulty variant: the flag is left as the caller set it
SetRequiresGrad_keep(flag) == flag

\* x.requires_grad = True  /  t.requires_grad = True
SetRequiresGrad(flag) == TRUE

(***************************************************************************)
(* Parameter gradients.  A gradient is the vector vec scaled by the        *)
(* rational num/den; backward leaves num = den = 1, clipping multiplies    *)
(* the scale by its coefficient, so that the scaling is exact.             *)
(***************************************************************************)
GradVec(a, b) ==
    [i \in 1..NumParams |-> IF i = 1 THEN a ELSE IF i = 2 THEN b ELSE Fin(0)]

Unscaled(v) == [vec |-> v, num |-> 1, den |-> 1]

ZeroGradient == Unscaled([i \in 1..NumParams |-> Fin(0)])

RECURSIVE SqrtFrom(_, _)
SqrtFrom(s, r) == IF (r + 1) * (r + 1) > s THEN r ELSE SqrtFrom(s, r + 1)

\* floor of the square root
ISqrt(s) == SqrtFrom(s, 0)

RECURSIVE SumSqFrom(_, _)
SumSqFrom(v, i) ==
    IF i > NumParams THEN 0 ELSE v[i].v * v[i].v + SumSqFrom(v, i + 1)

\* the 2-norm of all gradients taken as one vector, before the scale
Norm(v) ==
    IF \E i \in 1..NumParams : IsNaN(v[i]) THEN NaN
    ELSE IF \E i \in 1..NumParams : IsInf(v[i]) THEN PosInf
    ELSE Fin(ISqrt(SumSqFrom(v, 1)))

\* p.grad accumulates: grad + contribution, componentwise
Accumulate(g, d) == Unscaled([i \in 1..NumParams |-> FAdd(g.vec[i], d[i])])

(***************************************************************************)
(* torch.nn.utils.clip_grad_norm_(parameters, max_norm):                   *)
(*   clip_coef = max_norm / (total_norm + 1e-6)                            *)
(*   every gradient is multiplied by min(clip_coef, 1.0)                   *)
(* ClipNum(g, n) / ClipDen(g, n) is clip_coef for a gradient g whose       *)
(* unscaled norm is the finite n.                                          *)
(***************************************************************************)
ClipNum(g, n) == ClipEpsInv * max_norm * GradScale * g.den
\* faulty variant: the coefficient is max_norm / total_norm
ClipDen_no_eps(g, n) == ClipEpsInv * n * g.num

ClipDen(g, n) == ClipEpsInv * n * g.num + GradScale * g.den

ClipFinite(g, n) ==
    IF ClipNum(g, n) >= ClipDen(g, n)
    THEN g
    ELSE [vec |-> g.vec, num |-> g.num * ClipNum(g, n), den |-> g.den * ClipDen(g, n)]

\* faulty variant: the gradient is handed on as it is
clip_grad_norm_off(g) == g

clip_grad_norm_(g) ==
    LET n == Norm(g.vec)
    IN  IF IsNaN(n)
        THEN [g EXCEPT !.vec = [i \in 1..NumParams |-> NaN]]
        ELSE IF IsInf(n)
        THEN [g EXCEPT !.vec = [i \in 1..NumParams |->
                                  IF IsFinite(g.vec[i]) THEN Fin(0) ELSE NaN]]
        ELSE ClipFinite(g, n.v)

(***************************************************************************)
(* Adam (torch.optim.Adam, lr = 1e-4): the step counter and, for the       *)
(* moments, the gradient last consumed.  The parameter state is the number *)
(* of updates applied to the initial parameters and whether every          *)
(* parameter is still a finite number: a non-finite gradient makes the     *)
(* updated parameters NaN.                                                 *)
(***************************************************************************)
AdamParams(p, g) ==
    [updates |-> p.updates + 1, finite |-> p.finite /\ AllFinite(g.vec)]

AdamState(o, g) == [step |-> o.step + 1, exp_avg |-> g]

(***************************************************************************)
(* The network on the batch (PINN.forward and the autograd calls of        *)
(* wave_pinn_loss).  NaN parameters give NaN everywhere.  Finite           *)
(* parameters give the values of a profile that changes with every update; *)
(* they may also be degenerate: NaN values at any parameter state, and     *)
(* finite values too large to square at the parameter states OverflowAt.   *)
(***************************************************************************)
Eval(tt, xx, u0, t0, l, r) ==
    [u_tt |-> tt, u_xx |-> xx, u0 |-> u0, u_t0 |-> t0, u_left |-> l, u_right |-> r]

\* a finite value whose square exceeds MaxFloat
Big == MaxFloat \div 40000

NaNEval == Eval(Const(NaN), Const(NaN), Const(NaN), Const(NaN), Const(NaN), Const(NaN))

BigEval == Eval(Const(Fin(0)), Const(Fin(0)), Const(Fin(0)), Const(Fin(0)),
                Const(Fin(Big)), Const(Fin(0)))

ZeroEval == Eval(Const(Fin(0)), Const(Fin(0)), Const(Fin(0)), Const(Fin(0)),
                 Const(Fin(0)), Const(Fin(0)))

Profile(n) ==
    IF n % 2 = 0
    THEN Eval(FirstRest(Fin(2000), Fin(-1000)), Const(Fin(1000)), Const(Fin(500)),
              Const(Fin(1000)), Const(Fin(-1000)), Const(Fin(0)))
    ELSE Eval(Const(Fin(0)), Const(Fin(0)), FirstRest(Fin(1000), Fin(0)),
              Const(Fin(0)), Const(Fin(0)), Const(Fin(1000)))

OverflowAt == {0, 1}

Forward(p) ==
    IF ~p.finite THEN {NaNEval}
    ELSE {Profile(p.updates), NaNEval}
         \cup (IF p.updates \in OverflowAt THEN {BigEval} ELSE {})

\* what loss.backward() adds to the parameter gradients
Backprop ==
    { GradVec(Fin(3), Fin(4)), GradVec(Fin(0), Fin(GradScale)),
      GradVec(Fin(12), Fin(-16)), GradVec(PosInf, Fin(3)) }

(***************************************************************************)
(* The training loop, one action per statement.                            *)
(***************************************************************************)
LoopBatches ==
    { <<Const(3), Const(3)>>, <<FirstRest(0, 1), FirstRest(6, 2)>> }

\* the accuracy test, which follows training, has not run
TestNotRun ==
    /\ x_test = [i \in 1..TestLen |-> 0]
    /\ t_test = [i \in 1..TestLen |-> 0]
    /\ u_pred = [i \in 1..TestLen |-> Fin(0)]
    /\ mse = Fin(0)
    /\ relative_error = Fin(0)

Init ==
    /\ pc = "for"
    /\ it = 0
    /\ epoch = -1
    /\ params = [updates |-> 0, finite |-> TRUE]
    /\ opt = [step |-> 0, exp_avg |-> ZeroGradient]
    /\ grad = ZeroGradient
    /\ loss = Fin(0)
    /\ ev = ZeroEval
    /\ \E b \in LoopBatches : x_train = b[1] /\ t_train = b[2]
    /\ x_req = FALSE
    /\ t_req = FALSE
    /\ batch_grad = [x |-> 0, t |-> 0]
    /\ out = <<>>
    /\ TestNotRun

\* faulty variant: the loop counter is not advanced
ForNext_stuck ==
    /\ pc = "for"
    /\ it < num_epochs
    /\ epoch' = it
    /\ pc' = "zero_grad"
    /\ UNCHANGED <<it, params, opt, grad, loss, ev, x_train, t_train, x_req, t_req,
                   batch_grad, out, testvars>>

\* faulty variant: the loop also ends once the loss is below a tolerance
ForEnd_converged ==
    /\ pc = "for"
    /\ it >= num_epochs \/ (it > 0 /\ IsFinite(loss) /\ loss.v < 2000000)
    /\ pc' = "done"
    /\ UNCHANGED <<it, epoch, params, opt, grad, loss, ev, x_train, t_train,
                   x_req, t_req, batch_grad, out, testvars>>

\* faulty variant: every iteration draws a new batch
ForNext_resample ==
    /\ pc = "for"
    /\ it < num_epochs
    /\ epoch' = it
    /\ it' = it + 1
    /\ \E b \in LoopBatches : x_train' = b[1] /\ t_train' = b[2]
    /\ pc' = "zero_grad"
    /\ UNCHANGED <<params, opt, grad, loss, ev, x_req, t_req, batch_grad, out,
                   testvars>>

\* for epoch in range(num_epochs): the next index, or the end of the loop
ForNext ==
    /\ pc = "for"
    /\ it < num_epochs
    /\ epoch' = it
    /\ it' = it + 1
    /\ pc' = "zero_grad"
    /\ UNCHANGED <<params, opt, grad, loss, ev, x_train, t_train, x_req, t_req,
                   batch_grad, out, testvars>>

ForEnd ==
    /\ pc = "for"
    /\ it >= num_epochs
    /\ pc' = "done"
    /\ UNCHANGED <<it, epoch, params, opt, grad, loss, ev, x_train, t_train,
                   x_req, t_req, batch_grad, out, testvars>>

\* faulty variant: the gradients are not cleared
ZeroGrad_skip ==
    /\ pc = "zero_grad"
    /\ pc' = "loss"
    /\ UNCHANGED <<it, epoch, params, opt, grad, loss, ev, x_train, t_train, x_req,
                   t_req, batch_grad, out, testvars>>

\* faulty variant: the gradients of the batch tensors are cleared as well
ZeroGrad_all_leaves ==
    /\ pc = "zero_grad"
    /\ grad' = ZeroGradient
    /\ batch_grad' = [x |-> 0, t |-> 0]
    /\ pc' = "loss"
    /\ UNCHANGED <<it, epoch, params, opt, loss, ev, x_train, t_train, x_req,
                   t_req, out, testvars>>

\* optimizer.zero_grad()
ZeroGrad ==
    /\ pc = "zero_grad"
    /\ grad' = ZeroGradient
    /\ pc' = "loss"
    /\ UNCHANGED <<it, epoch, params, opt, loss, ev, x_train, t_train, x_req,
                   t_req, batch_grad, out, testvars>>

\* the call wave_pinn_loss(model, x, t) on a network that evaluates to e
LossCall(e) ==
    /\ x_req' = SetRequiresGrad(x_req)
    /\ t_req' = SetRequiresGrad(t_req)
    /\ ev' = e
    /\ loss' = total_loss(e, x_train)
    /\ UNCHANGED <<it, epoch, params, opt, grad, x_train, t_train, batch_grad, out, testvars>>

\* loss = wave_pinn_loss(model, x_train, t_train)
ComputeLoss ==
    /\ pc = "loss"
    /\ \E e \in Forward(params) : LossCall(e)
    /\ pc' = "check"

\* faulty variant: continue instead of break
FatalStop_continue ==
    /\ pc = "check"
    /\ IsNaN(loss)
    /\ out' = Append(out, <<"NaN", epoch>>)
    /\ pc' = "for"
    /\ UNCHANGED <<it, epoch, params, opt, grad, loss, ev, x_train, t_train,
                   x_req, t_req, batch_grad, testvars>>

\* faulty variant: the iteration goes on whatever the loss is
PassCheck_unguarded ==
    /\ pc = "check"
    /\ pc' = "backward"
    /\ UNCHANGED <<it, epoch, params, opt, grad, loss, ev, x_train, t_train,
                   x_req, t_req, batch_grad, out, testvars>>

\* faulty variant: the diagnostic names the index after the failing one
FatalStop_next_index ==
    /\ pc = "check"
    /\ IsNaN(loss)
    /\ out' = Append(out, <<"NaN", it>>)
    /\ pc' = "done"
    /\ UNCHANGED <<it, epoch, params, opt, grad, loss, ev, x_train, t_train,
                   x_req, t_req, batch_grad, testvars>>

\* if torch.isnan(loss): print(...); break
FatalStop ==
    /\ pc = "check"
    /\ IsNaN(loss)
    /\ out' = Append(out, <<"NaN", epoch>>)
    /\ pc' = "done"
    /\ UNCHANGED <<it, epoch, params, opt, grad, loss, ev, x_train, t_train,
                   x_req, t_req, batch_grad, testvars>>

PassCheck ==
    /\ pc = "check"
    /\ ~IsNaN(loss)
    /\ pc' = "backward"
    /\ UNCHANGED <<it, epoch, params, opt, grad, loss, ev, x_train, t_train,
                   x_req, t_req, batch_grad, out, testvars>>

\* faulty variant: the update follows backward at once, clipping comes last
Backward_then_step ==
    /\ pc = "backward"
    /\ \E d \in Backprop : grad' = Accumulate(grad, d)
    /\ batch_grad' = [x |-> batch_grad.x + (IF x_req THEN 1 ELSE 0),
                      t |-> batch_grad.t + (IF t_req THEN 1 ELSE 0)]
    /\ pc' = "step"
    /\ UNCHANGED <<it, epoch, params, opt, loss, ev, x_train, t_train, x_req,
                   t_req, out, testvars>>

\* loss.backward(): accumulates into every leaf that requires grad
Backward ==
    /\ pc = "backward"
    /\ \E d \in Backprop : grad' = Accumulate(grad, d)
    /\ batch_grad' = [x |-> batch_grad.x + (IF x_req THEN 1 ELSE 0),
                      t |-> batch_grad.t + (IF t_req THEN 1 ELSE 0)]
    /\ pc' = "clip"
    /\ UNCHANGED <<it, epoch, params, opt, loss, ev, x_train, t_train, x_req,
                   t_req, out, testvars>>

\* torch.nn.utils.clip_grad_norm_(model.parameters(), max_norm=1.0)
Clip ==
    /\ pc = "clip"
    /\ grad' = clip_grad_norm_(grad)
    /\ pc' = "step"
    /\ UNCHANGED <<it, epoch, params, opt, loss, ev, x_train, t_train, x_req,
                   t_req, batch_grad, out, testvars>>

\* optimizer.step()
Step ==
    /\ pc = "step"
    /\ params' = AdamParams(params, grad)
    /\ opt' = AdamState(opt, grad)
    /\ pc' = "report"
    /\ UNCHANGED <<it, epoch, grad, loss, ev, x_train, t_train, x_req, t_req,
                   batch_grad, out, testvars>>

\* faulty variant: reports at the end of every interval instead of its start
Reports_end(e) == (e + 1) % ReportEvery = 0

\* if epoch % 500 == 0: print(f"Epoch {epoch}, Loss: {loss.item()}")
Reports(e) == e % ReportEvery = 0

Report ==
    /\ pc = "report"
    /\ out' = IF Reports(epoch) THEN Append(out, <<"Epoch", epoch, loss>>) ELSE out
    /\ pc' = "for"
    /\ UNCHANGED <<it, epoch, params, opt, grad, loss, ev, x_train, t_train,
                   x_req, t_req, batch_grad, testvars>>

Next ==
    \/ ForNext
    \/ ForEnd
    \/ ZeroGrad
    \/ ComputeLoss
    \/ FatalStop
    \/ PassCheck
    \/ Backward
    \/ Clip
    \/ Step
    \/ Report

Spec == Init /\ [][Next]_vars

(***************************************************************************)
(* wave_pinn_loss on its own: one call on a network whose values on the    *)
(* batch are drawn from ProbeEvals.                                        *)
(***************************************************************************)
\* a finite value whose square is finite while three such squares are not
Mid == MaxFloat \div 66667

ProbeEvals ==
    { Eval(tt, xx, u0, t0, l, r) :
        tt \in { Const(Fin(0)), FirstRest(Fin(2000), Fin(-1000)),
                 Const(Fin(Big)), Const(PosInf) },
        xx \in { Const(Fin(0)), FirstRest(Fin(2000), Fin(1000)),
                 Const(Fin(-Big)), Const(PosInf) },
        u0 \in { Const(Fin(0)), FirstRest(Fin(1000), Fin(500)),
                 Const(Fin(Mid)), Const(NaN) },
        t0 \in { Const(Fin(0)), FirstRest(Fin(-3000), Fin(0)), Const(Fin(Mid)),
                 FirstRest(Fin(0), NaN) },
        l  \in { Const(Fin(0)), FirstRest(Fin(1000), Fin(0)),
                 Const(Fin(-Mid)), Const(NegInf) },
        r  \in { Const(Fin(0)), FirstRest(Fin(0), Fin(-2000)) } }

ProbeBatches ==
    { <<Const(0), Const(0)>>, <<Const(3), Const(6)>>, <<FirstRest(1, 6), FirstRest(4, 2)>> }

InitLoss ==
    /\ pc = "loss"
    /\ it = 1
    /\ epoch = 0
    /\ params = [updates |-> 0, finite |-> TRUE]
    /\ opt = [step |-> 0, exp_avg |-> ZeroGradient]
    /\ grad = ZeroGradient
    /\ loss = Fin(0)
    /\ ev \in ProbeEvals
    /\ \E b \in ProbeBatches : x_train = b[1] /\ t_train = b[2]
    /\ x_req \in BOOLEAN
    /\ t_req = x_req
    /\ batch_grad = [x |-> 0, t |-> 0]
    /\ out = <<>>
    /\ TestNotRun

EvalBatch ==
    /\ pc = "loss"
    /\ LossCall(ev)
    /\ pc' = "check"

SpecLoss == InitLoss /\ [][EvalBatch]_vars

(***************************************************************************)
(* clip_grad_norm_ on its own: one call on a gradient drawn from           *)
(* ProbeGrads, the vectors over ProbeComps whose norm is a grid value,     *)
(* and two vectors that are not finite.                                    *)
(***************************************************************************)
ProbeComps ==
    { -16, -12, -8, -6, -4, -3, 0, 3, 4, 6, 8, 12, 16,
      GradScale, -GradScale, 2 * GradScale }

ExactNorm(a, b) == ISqrt(a * a + b * b) * ISqrt(a * a + b * b) = a * a + b * b

ProbeGrads ==
    { GradVec(Fin(a), Fin(b)) : <<a, b>> \in { q \in ProbeComps \X ProbeComps :
                                                 ExactNorm(q[1], q[2]) } }
    \cup { GradVec(PosInf, Fin(3)), GradVec(Fin(4), NaN) }

InitClip ==
    /\ pc = "clip"
    /\ it = 1
    /\ epoch = 0
    /\ params = [updates |-> 0, finite |-> TRUE]
    /\ opt = [step |-> 0, exp_avg |-> ZeroGradient]
    /\ grad \in { Unscaled(v) : v \in ProbeGrads }
    /\ loss = Fin(0)
    /\ ev = ZeroEval
    /\ x_train = Const(3)
    /\ t_train = Const(3)
    /\ x_req = TRUE
    /\ t_req = TRUE
    /\ batch_grad = [x |-> 1, t |-> 1]
    /\ out = <<>>
    /\ TestNotRun

SpecClip == InitClip /\ [][Clip]_vars

(***************************************************************************)
(* calculate_accuracy on its own: one call on a test grid and a network    *)
(* whose predictions are drawn from Predictions.  Values of u are in units *)
(* of 1e-3, the mean squared error in units of 1e-6, a ratio in units of   *)
(* 1e-3.  float32 gives sin(pi) and cos(pi/2) a magnitude below 1e-7, not  *)
(* zero, which the grid cannot tell from zero: the test grids do not hold  *)
(* x = 1 and the test times not t = 1/2, so that a zero of the reference   *)
(* on the grid (x = 0) is a zero of the float32 reference.                 *)
(***************************************************************************)
CosPiTable == <<1000, 866, 500, 0, -500, -866, -1000>>
CosPi(t) == Fin(CosPiTable[t + 1])

FAbs(a) == IF IsNaN(a) THEN NaN ELSE [k |-> a.k, v |-> Abs(a.v)]

\* the quotient of two finite values, as a ratio in units of 1e-3
FinQuotient(a, b) ==
    LET q == Abs(a) \div Abs(b)
        r == Abs(a) % Abs(b)
        frac == IF Abs(b) <= MaxFloat \div 1000
                THEN (r * 1000) \div Abs(b)
                ELSE r \div (Abs(b) \div 1000)
    IN  IF q > (MaxFloat \div 1000) - 1
        THEN Inf(Sign(a) * Sign(b))
        ELSE Fin(Sign(a) * Sign(b) * (q * 1000 + frac))

\* a / b; a zero divisor gives an infinity, or NaN for 0 / 0
FDiv(a, b) ==
    IF IsNaN(a) \/ IsNaN(b) THEN NaN
    ELSE IF IsInf(a) /\ IsInf(b) THEN NaN
    ELSE IF IsInf(a) THEN Inf(a.v * (IF b.v < 0 THEN -1 ELSE 1))
    ELSE IF IsInf(b) THEN Fin(0)
    ELSE IF b.v = 0 THEN (IF a.v = 0 THEN NaN ELSE Inf(Sign(a.v)))
    ELSE FinQuotient(a.v, b.v)

\* torch.sin(np.pi * x) * torch.cos(c * np.pi * t) at one point
exact_solution(x, t) ==
    LET prod == FMul(SinPi(x), CosPi(c * t))
    IN  IF IsFinite(prod) THEN Fin(Sign(prod.v) * (Abs(prod.v) \div 1000)) ELSE prod

\* torch.mean((u_pred - u_exact) ** 2)
MeanSquaredError(p, e) ==
    FMean([i \in 1..TestLen |-> FSquare(FSub(p[i], e[i]))])

\* faulty variant: points whose reference value is zero are skipped
RelativeError_guarded(p, e) ==
    FMul(FMean([i \in 1..TestLen |->
                  IF e[i] = Fin(0) THEN Fin(0)
                  ELSE FAbs(FDiv(FSub(p[i], e[i]), e[i]))]),
         Fin(100))

\* torch.mean(torch.abs((u_pred - u_exact) / u_exact)) * 100
RelativeError(p, e) ==
    FMul(FMean([i \in 1..TestLen |-> FAbs(FDiv(FSub(p[i], e[i]), e[i]))]),
         Fin(100))

TestFirstRest(a, b) == [i \in 1..TestLen |-> IF i = 1 THEN a ELSE b]

TestPoints == 0..5
TestTimes == {0, 2, 4, 6}

\* x_test with t_test: a grid of points at one fixed time
TestGrids ==
    { <<TestFirstRest(a, b), TestFirstRest(t, t)>> :
        a \in TestPoints, b \in TestPoints, t \in TestTimes }

PredictedValues == { Fin(0), Fin(500), Fin(-250), Fin(1000), NaN, PosInf }

\* model(x_test, t_test).detach()
Predictions ==
    { TestFirstRest(a, b) : a \in PredictedValues, b \in PredictedValues }

UExact == [i \in 1..TestLen |-> exact_solution(x_test[i], t_test[i])]

InitAccuracy ==
    /\ pc = "accuracy"
    /\ it = num_epochs
    /\ epoch = num_epochs - 1
    /\ params = [updates |-> num_epochs, finite |-> TRUE]
    /\ opt = [step |-> num_epochs, exp_avg |-> ZeroGradient]
    /\ grad = ZeroGradient
    /\ loss = Fin(0)
    /\ ev = ZeroEval
    /\ x_train = Const(3)
    /\ t_train = Const(3)
    /\ x_req = TRUE
    /\ t_req = TRUE
    /\ batch_grad = [x |-> num_epochs, t |-> num_epochs]
    /\ out = <<>>
    /\ \E g \in TestGrids : x_test = g[1] /\ t_test = g[2]
    /\ u_pred = [i \in 1..TestLen |-> Fin(0)]
    /\ mse = Fin(0)
    /\ relative_error = Fin(0)

\* mse, relative_error = calculate_accuracy(model, x_test, t_test)
calculate_accuracy ==
    /\ pc = "accuracy"
    /\ \E p \in Predictions :
         /\ u_pred' = p
         /\ mse' = MeanSquaredError(p, UExact)
         /\ relative_error' = RelativeError(p, UExact)
    /\ pc' = "evaluated"
    /\ UNCHANGED <<trainvars, x_test, t_test>>

SpecAccuracy == InitAccuracy /\ [][calculate_accuracy]_vars

(***************************************************************************)
(* Properties of the training loop.                                        *)
(***************************************************************************)
\* the loop ended by the break of the NaN check
Halted == pc = "done" /\ IsNaN(loss)

AfterCheck == pc \in {"backward", "clip", "step", "report"}

\* C1: a NaN loss in iteration k halts the loop in that iteration, before
\* backward, clipping or optimizer.step: the step from the check ends the loop
\* and leaves parameters, gradients and optimizer state as they were; once
\* halted, the gradients are still the cleared ones, exactly the updates of the
\* k earlier iterations have been applied, and nothing runs any more.
C1_FatalStopOnNaN ==
    /\ [][(pc = "check" /\ IsNaN(loss)) =>
            (pc' = "done" /\ params' = params /\ opt' = opt /\ grad' = grad)]_vars
    /\ [][pc = "done" => UNCHANGED vars]_vars
    /\ [](Halted => /\ grad = ZeroGradient
                    /\ opt.step = epoch
                    /\ params.updates = epoch
                    /\ it = epoch + 1)

C1_Witness == Halted /\ epoch = 2 /\ opt.step = 2 /\ params.finite

\* C2 as stated: an iteration goes on past the check only with a finite loss,
\* so every update comes from a finite loss.
C2_Original == AfterCheck => IsFinite(loss)

\* C2 amended: an iteration goes on past the check only with a loss that is
\* not NaN (a +inf loss passes the check and its update is applied).
C2_NaNLossNeverUpdates == AfterCheck => ~IsNaN(loss)

C2_Witness == pc = "report" /\ loss = PosInf /\ opt.step = epoch + 1

\* the number of statements the loop can still execute, at most
StageRank ==
    CASE pc = "zero_grad" -> 8
      [] pc = "loss" -> 7
      [] pc = "check" -> 6
      [] pc = "backward" -> 5
      [] pc = "clip" -> 4
      [] pc = "step" -> 3
      [] pc = "report" -> 2
      [] pc = "for" -> 1
      [] OTHER -> 0

Rank == IF pc = "done" THEN 0 ELSE (num_epochs - it) * 9 + StageRank

\* some statement of the loop can execute (clip_grad_norm_ always can, the
\* loss call can whenever the network evaluates)
CanRun ==
    \/ ENABLED (ForNext \/ ForEnd \/ ZeroGrad \/ FatalStop \/ PassCheck
                \/ Backward \/ Step \/ Report)
    \/ pc = "loss" /\ Forward(params) # {}
    \/ pc = "clip"

\* C3: the loop always ends: every statement it executes lowers a bound on the
\* statements still to run, and it is never stuck before its end; it starts at
\* most num_epochs iterations; and it has ended exactly when the counter is
\* exhausted after a last iteration that passed the check, or when the NaN
\* check fired.
C3_Terminates ==
    /\ [][Rank' < Rank]_vars
    /\ [](Rank >= 0)
    /\ [](pc # "done" => CanRun)
    /\ [](it <= num_epochs /\ epoch < num_epochs)
    /\ [](pc = "done" =>
            \/ it = num_epochs /\ epoch = num_epochs - 1 /\ ~IsNaN(loss)
               /\ Len(out) > 0 /\ out[Len(out)][1] = "Epoch"
            \/ IsNaN(loss) /\ out[Len(out)] = <<"NaN", epoch>>)

C3_Witness == pc = "done" /\ it = num_epochs /\ ~IsNaN(loss)

\* C4: optimizer steps and iterations that passed the check go one to one:
\* between iterations the step counter is the number of iterations run, inside
\* an iteration it is the iteration index until optimizer.step and one more
\* after it, a halting iteration adds none, and a run that never halts ends
\* with exactly num_epochs steps whatever the losses were.
C4_OneUpdatePerIteration ==
    /\ pc = "for" => opt.step = it /\ params.updates = it
    /\ pc \in {"zero_grad", "loss", "check", "backward", "clip", "step"} =>
         opt.step = epoch /\ params.updates = epoch
    /\ pc = "report" => opt.step = epoch + 1 /\ params.updates = epoch + 1
    /\ Halted => opt.step = epoch /\ params.updates = epoch
    /\ (pc = "done" /\ ~IsNaN(loss)) =>
         opt.step = num_epochs /\ params.updates = num_epochs

C4_Witness == pc = "done" /\ ~IsNaN(loss) /\ opt.step = num_epochs

\* the parameter state an iteration started from
ParamsBefore == [updates |-> epoch, finite |-> TRUE]

\* C6: the report statement of an iteration that was not halted appends one
\* line iff the index is a multiple of 500, the line holds the index and the
\* loss of that iteration, which was computed from the parameters as they were
\* before the iteration's update, and it changes neither parameters, gradients
\* nor optimizer state; a 5000-iteration run without a halt has printed
\* exactly the ten lines for 0, 500, ..., 4500 in this order (none for 4999).
C6_ProgressReports ==
    /\ [][pc = "report" =>
            /\ out' = IF epoch % 500 = 0
                      THEN Append(out, <<"Epoch", epoch, total_loss(ev, x_train)>>)
                      ELSE out
            /\ params' = params /\ opt' = opt /\ grad' = grad]_vars
    /\ [](pc = "report" => /\ loss = total_loss(ev, x_train)
                           /\ ev \in Forward(ParamsBefore)
                           /\ params.updates = epoch + 1)
    /\ [](\A j \in 1..Len(out) :
            out[j][1] = "Epoch" => out[j][2] = 500 * (j - 1) /\ out[j][2] <= epoch)
    /\ []((pc = "done" /\ ~IsNaN(loss)) =>
            /\ epoch = 4999
            /\ Len(out) = 10
            /\ \A j \in 1..10 : out[j][1] = "Epoch" /\ out[j][2] = 500 * (j - 1))

C6_Witness ==
    /\ pc = "done" /\ ~IsNaN(loss)
    /\ Len(out) = 10 /\ out[10][2] = 4500 /\ out[1][3] # out[2][3]

\* C7 as stated: a call of wave_pinn_loss changes nothing but its result: not
\* the batches, not whether they take part in differentiation, not the
\* parameters, their gradients or the optimizer.
C7_Original ==
    [][pc = "loss" =>
         UNCHANGED <<x_train, t_train, x_req, t_req, params, grad, opt,
                     batch_grad, out>>]_vars

\* C7 amended: a call of wave_pinn_loss leaves the batches' coordinate values,
\* the parameters, every gradient, the optimizer and the output unchanged, and
\* has one side effect: both batches require grad after it.
C7_OnlySetsRequiresGrad ==
    [][pc = "loss" =>
         /\ x_req' /\ t_req'
         /\ UNCHANGED <<x_train, t_train, params, grad, opt, batch_grad, out,
                        it, epoch>>]_vars

C7_Witness ==
    pc = "check" /\ epoch = 0 /\ x_req /\ t_req /\ batch_grad = [x |-> 0, t |-> 0]

(***************************************************************************)
(* Properties of wave_pinn_loss.                                           *)
(***************************************************************************)
\* the mean over the batch of the squares of a residual sequence
MeanSquare(r) == FMean([i \in 1..BatchLen |-> FMul(r[i], r[i])])

PdeResidual(e) == [i \in 1..BatchLen |-> FSub(e.u_tt[i], FMul(Fin(c * c), e.u_xx[i]))]
DisplacementResidual(e, x) == [i \in 1..BatchLen |-> FSub(e.u0[i], SinPi(x[i]))]

\* C8: the value returned is the sum, every weight 1, of the mean squared PDE
\* residual, the mean squared displacement residual, the mean of the squared
\* velocity residual plus 1e-6, and the two mean squared boundary values (at
\* x = 0 and at x = 1), each taken once.
C8_UnweightedSum ==
    pc = "check" =>
      loss = FSumFrom(<< MeanSquare(PdeResidual(ev)),
                         MeanSquare(DisplacementResidual(ev, x_train)),
                         FMean([i \in 1..BatchLen |->
                                  FAdd(FMul(ev.u_t0[i], ev.u_t0[i]), Fin(1))]),
                         MeanSquare(ev.u_left),
                         MeanSquare(ev.u_right) >>, 1)

C8_Witness ==
    /\ pc = "check" /\ IsFinite(loss)
    /\ physics_loss(ev).v > 0 /\ initial_loss(ev, x_train).v > 0
    /\ velocity_loss(ev).v > 1
    /\ MeanSquare(ev.u_left).v > 0 /\ MeanSquare(ev.u_right).v > 0
    /\ MeanSquare(ev.u_left) # MeanSquare(ev.u_right)

\* every value the network and its derivatives take on the batch is finite
EvalFinite(e) ==
    /\ AllFinite(e.u_tt) /\ AllFinite(e.u_xx) /\ AllFinite(e.u0)
    /\ AllFinite(e.u_t0) /\ AllFinite(e.u_left) /\ AllFinite(e.u_right)

\* no value has a magnitude above m
Within(e, m) ==
    \A i \in 1..BatchLen :
      \A v \in {e.u_tt[i], e.u_xx[i], e.u0[i], e.u_t0[i], e.u_left[i], e.u_right[i]} :
        IsFinite(v) /\ Abs(v.v) <= m

\* a magnitude (3.0) whose squares and their sums stay far below MaxFloat
SafeMag == 3 * 1000

\* C9 as stated: finite network values give a finite, non-negative loss.
C9_Original ==
    (pc = "check" /\ EvalFinite(ev)) => (IsFinite(loss) /\ loss.v >= 0)

\* C9 amended: finite network values give a loss that is not NaN and not
\* negative: a finite non-negative number or +inf; it is finite when no value
\* is large enough for a square or a sum of squares to overflow.
C9_NonNegativeOrOverflow ==
    (pc = "check" /\ EvalFinite(ev)) =>
      /\ loss = PosInf \/ (IsFinite(loss) /\ loss.v >= 0)
      /\ Within(ev, SafeMag) => IsFinite(loss)

C9_Witness ==
    /\ pc = "check" /\ EvalFinite(ev) /\ Within(ev, SafeMag)
    /\ IsFinite(loss) /\ physics_loss(ev).v > 0 /\ ev.u_t0[1].v < 0

(***************************************************************************)
(* Properties of gradient clipping.                                        *)
(***************************************************************************)
RECURSIVE GCD(_, _)
GCD(a, b) == IF b = 0 THEN a ELSE GCD(b, a % b)

\* a/b = p/q for positive a, b, p, q
SameRatio(a, b, p, q) ==
    /\ a \div GCD(a, b) = p \div GCD(p, q)
    /\ b \div GCD(a, b) = q \div GCD(p, q)

\* the clipping threshold in gradient units
Threshold == max_norm * GradScale

\* a call of clip_grad_norm_ on a finite gradient as backward leaves it
ClipsFinite == pc = "clip" /\ AllFinite(grad.vec) /\ grad.num = 1 /\ grad.den = 1

\* C5 as stated: a gradient of norm n above the threshold is scaled by
\* threshold / n, so that its norm becomes the threshold and its direction
\* stays; a gradient of norm at or below the threshold is left unchanged.
C5_Original ==
    [][ClipsFinite =>
         LET n == Norm(grad.vec).v
         IN  /\ n > Threshold =>
                  /\ grad'.vec = grad.vec /\ grad'.num > 0 /\ grad'.den > 0
                  /\ n * grad'.num = Threshold * grad'.den
             /\ n <= Threshold => grad' = grad]_vars

\* C5 amended: clipping never changes the direction.  A gradient of norm n
\* with n + 1e-6 above the threshold (n = threshold included) is scaled by
\* threshold / (n + 1e-6), every component alike: its norm ends below the
\* threshold, by less than 1e-6 when n was above the threshold.  A gradient
\* with n + 1e-6 at or below the threshold is left unchanged.
C5_ClipWithEps ==
    [][ClipsFinite =>
         LET n == Norm(grad.vec).v
             scaled == n * ClipEpsInv + GradScale > Threshold * ClipEpsInv
         IN  /\ grad'.vec = grad.vec /\ grad'.num > 0 /\ grad'.den > 0
             /\ scaled =>
                  /\ SameRatio(grad'.num, grad'.den,
                               Threshold * ClipEpsInv, n * ClipEpsInv + GradScale)
                  /\ n * grad'.num < Threshold * grad'.den
                  /\ n > Threshold =>
                       (Threshold * grad'.den - n * grad'.num) * ClipEpsInv
                         < GradScale * grad'.den
             /\ ~scaled => grad' = grad]_vars

\* a gradient whose norm was exactly the threshold has been scaled down
C5_Witness ==
    /\ pc = "step" /\ AllFinite(grad.vec)
    /\ Norm(grad.vec).v = Threshold /\ grad.num < grad.den
    /\ grad.vec[1].v # 0 /\ grad.vec[2].v # 0

(***************************************************************************)
(* Order of the statements of an iteration, and the gradient an update     *)
(* consumes.                                                               *)
(***************************************************************************)
\* C11: the statements of an iteration run in the order zero_grad, loss,
\* NaN check, backward, clipping, optimizer.step, report, one after the other
\* and each once: every statement hands over to the next one only (the check
\* to backward or to the end of the loop), and each does its own work there:
\* the loss is assigned by the loss call only, gradients are cleared by
\* zero_grad, grown by backward and rescaled by clipping only, parameters and
\* optimizer change by optimizer.step only.  So the check sees the loss of its
\* own iteration while the gradients are still the cleared ones, and the
\* gradient an update consumes is what clipping made of what backward left.
C11_IterationOrder ==
    /\ [][/\ pc = "for" => pc' \in {"zero_grad", "done"}
          /\ pc = "zero_grad" => pc' = "loss"
          /\ pc = "loss" => pc' = "check"
          /\ pc = "check" => pc' \in {"backward", "done"}
          /\ pc = "backward" => pc' = "clip"
          /\ pc = "clip" => pc' = "step"
          /\ pc = "step" => pc' = "report"
          /\ pc = "report" => pc' = "for"]_vars
    /\ [][/\ loss' # loss => pc = "loss"
          /\ grad' # grad => pc \in {"zero_grad", "backward", "clip"}
          /\ (params' # params \/ opt' # opt) => pc = "step"
          /\ out' # out => pc \in {"check", "report"}
          /\ pc = "zero_grad" => grad' = ZeroGradient
          /\ pc = "backward" => \E d \in Backprop : grad' = Accumulate(grad, d)
          /\ pc = "clip" => grad' = clip_grad_norm_(grad)
          /\ pc = "step" => opt'.exp_avg = grad /\ opt'.step = opt.step + 1]_vars
    /\ [](pc = "check" => /\ grad = ZeroGradient
                          /\ loss = total_loss(ev, x_train)
                          /\ ev \in Forward(params)
                          /\ opt.step = epoch)
    /\ [](pc = "step" => \E d \in Backprop :
                            grad = clip_grad_norm_(Accumulate(ZeroGradient, d)))

\* an iteration whose gradient was clipped has run through to its report
C11_Witness ==
    /\ pc = "report" /\ epoch = 1 /\ opt.step = 2
    /\ grad.num < grad.den /\ ~IsNaN(loss)

\* what is left of a gradient after its scale: finite components only
ScaledNormAtMost(g, bound) ==
    /\ AllFinite(g.vec)
    /\ g.num > 0 /\ g.den > 0
    /\ Norm(g.vec).v * g.num <= bound * g.den

\* C12 as stated: the gradient optimizer.step consumes has a global norm of at
\* most the threshold 1.0, in every iteration.
C12_Original ==
    /\ pc = "step" => ScaledNormAtMost(grad, Threshold)
    /\ opt.step > 0 => ScaledNormAtMost(opt.exp_avg, Threshold)

\* C12 amended: the gradient optimizer.step consumes is the one clipping
\* returned.  If backward left finite gradients its global norm is at most
\* the threshold 1.0 (below it when the gradient was scaled).  If backward
\* left a non-finite gradient, clipping makes it NaN or zero componentwise,
\* its norm is NaN, not bounded, and the update consumes it all the same.
C12_ClippedWhenFinite ==
    /\ pc = "step" =>
         /\ \E d \in Backprop : grad = clip_grad_norm_(Unscaled(d))
         /\ \/ ScaledNormAtMost(grad, Threshold)
               /\ (grad.num < grad.den =>
                     Norm(grad.vec).v * grad.num < Threshold * grad.den)
            \/ /\ IsNaN(Norm(grad.vec))
               /\ \A i \in 1..NumParams : IsNaN(grad.vec[i]) \/ grad.vec[i] = Fin(0)
    /\ opt.step > 0 =>
         \/ ScaledNormAtMost(opt.exp_avg, Threshold)
         \/ IsNaN(Norm(opt.exp_avg.vec))

\* an update has consumed a gradient whose norm backward left at 2.0
C12_Witness ==
    /\ pc = "report" /\ AllFinite(opt.exp_avg.vec)
    /\ Norm(opt.exp_avg.vec).v > Threshold
    /\ opt.exp_avg.num < opt.exp_avg.den

(***************************************************************************)
(* The floor of the velocity term.                                         *)
(***************************************************************************)
\* a is a number and at least n: a finite value from n on, or +inf
AtLeast(a, n) == a = PosInf \/ (IsFinite(a) /\ a.v >= n)

NoNaN(s) == \A i \in 1..Len(s) : ~IsNaN(s[i])

\* C13 as stated: velocity_loss is at least 1e-6, and so is the composite
\* loss, for every parameter state and batch.
C13_Original ==
    pc = "check" =>
      /\ AtLeast(velocity_loss(ev), VelocityEps)
      /\ AtLeast(loss, VelocityEps)

\* C13 amended: velocity_loss is the mean over the batch of u_t0^2 + 1e-6 and
\* is never zero, and neither is the composite loss.  Both can be NaN (a NaN
\* network value makes them so): velocity_loss is at least 1e-6 whenever no
\* u_t0 value is NaN, the composite loss is at least 1e-6 whenever it is not
\* NaN, which it is not when every network value is finite.
C13_FloorUnlessNaN ==
    pc = "check" =>
      /\ velocity_loss(ev) =
           FMean([i \in 1..BatchLen |-> FAdd(FMul(ev.u_t0[i], ev.u_t0[i]), Fin(1))])
      /\ velocity_loss(ev) # Fin(0) /\ loss # Fin(0)
      /\ NoNaN(ev.u_t0) => AtLeast(velocity_loss(ev), VelocityEps)
      /\ ~IsNaN(loss) => AtLeast(loss, VelocityEps)
      /\ EvalFinite(ev) => ~IsNaN(loss)

\* every residual is zero and the loss is the floor itself
C13_Witness ==
    /\ pc = "check" /\ EvalFinite(ev)
    /\ velocity_loss(ev) = Fin(VelocityEps) /\ loss = Fin(VelocityEps)

(***************************************************************************)
(* The batch, the clearing of gradients, the diagnostic.                   *)
(***************************************************************************)
\* C14: the batch is the one drawn before the loop: x_train and t_train have
\* the same length N, no statement of the loop changes, reorders or redraws
\* their values, and the loss of every iteration is the evaluator's value on
\* these same coordinates.
C14_FixedBatch ==
    /\ [][x_train' = x_train /\ t_train' = t_train]_vars
    /\ [](/\ Len(x_train) = BatchLen /\ Len(t_train) = Len(x_train)
          /\ <<x_train, t_train>> \in LoopBatches)
    /\ [](pc \in {"check", "backward", "clip", "step", "report"} =>
            loss = total_loss(ev, x_train))

\* the last iteration evaluates the batch the first one did
C14_Witness ==
    /\ pc = "check" /\ epoch = num_epochs - 1 /\ x_req /\ t_req
    /\ x_train = FirstRest(0, 1) /\ t_train = FirstRest(6, 2)

\* C15: zero_grad clears the parameter gradients at the start of every
\* iteration: they are zero until backward, what clipping receives is the
\* contribution of this iteration's backward alone, and what optimizer.step
\* consumes is the clipped form of it, with nothing of an earlier iteration.
C15_GradientsCleared ==
    /\ [][pc = "zero_grad" => grad' = ZeroGradient]_vars
    /\ [](pc \in {"loss", "check", "backward"} => grad = ZeroGradient)
    /\ [](pc = "clip" => \E d \in Backprop : grad = Unscaled(d))
    /\ [](pc = "step" => \E d \in Backprop : grad = clip_grad_norm_(Unscaled(d)))
    /\ [](pc = "report" => opt.exp_avg = grad)

\* clipping receives (0.3, 0.4) after an iteration that consumed a clipped
\* (1.2, -1.6)
C15_Witness ==
    /\ pc = "clip" /\ epoch = 1
    /\ grad = Unscaled(GradVec(Fin(3), Fin(4)))
    /\ opt.exp_avg.vec = GradVec(Fin(12), Fin(-16))

\* the positions of the NaN diagnostics in the output
NaNLines == {j \in 1..Len(out) : out[j][1] = "NaN"}

\* C16: the break of the NaN check emits one diagnostic, which names the index
\* of the iteration whose loss is NaN; this is the first such iteration, since
\* a NaN loss is never carried past the check; the halting iteration emits no
\* progress report, whatever its index, and the loop emits nothing afterwards.
\* A loop that did not halt has emitted no diagnostic.
C16_NaNDiagnostic ==
    /\ [][(pc = "check" /\ IsNaN(loss)) =>
            (out' = Append(out, <<"NaN", epoch>>) /\ pc' = "done")]_vars
    /\ [][pc = "done" => out' = out]_vars
    /\ [](IsNaN(loss) => pc \in {"check", "done"})
    /\ [](Halted =>
            /\ NaNLines = {Len(out)}
            /\ out[Len(out)] = <<"NaN", epoch>>
            /\ \A j \in 1..(Len(out) - 1) :
                 out[j][1] = "Epoch" /\ out[j][2] < epoch /\ ~IsNaN(out[j][3]))
    /\ [](~Halted => NaNLines = {})

\* the loop halted at index 500: a report for 0, the diagnostic, no report
\* for 500
C16_Witness ==
    /\ Halted /\ epoch = ReportEvery
    /\ Len(out) = 2 /\ out[1][2] = 0 /\ out[2] = <<"NaN", ReportEvery>>

(***************************************************************************)
(* Properties of calculate_accuracy.                                       *)
(***************************************************************************)
\* the test points whose reference value is exactly zero
ZeroReference == {i \in 1..TestLen : UExact[i] = Fin(0)}

\* C17: calculate_accuracy returns for every test grid and prediction, with no
\* guard on the reference value: if the exact solution is zero at some test
\* point, the relative error returned is not a finite number: +inf when the
\* predictions are finite and one of them is not zero where the reference is,
\* NaN when a prediction is zero (0/0) or NaN there.  The mean squared error
\* is computed over all points nonetheless and is finite for finite
\* predictions.
C17_ZeroReference ==
    /\ pc = "accuracy" =>
         \A p \in Predictions :
           /\ MeanSquaredError(p, UExact).k \in {"fin", "inf", "nan"}
           /\ RelativeError(p, UExact).k \in {"fin", "inf", "nan"}
    /\ pc = "evaluated" =>
         /\ mse = FMean([i \in 1..TestLen |->
                           FMul(FSub(u_pred[i], UExact[i]), FSub(u_pred[i], UExact[i]))])
         /\ AllFinite(u_pred) => (IsFinite(mse) /\ mse.v >= 0)
         /\ ZeroReference # {} =>
              /\ ~IsFinite(relative_error)
              /\ relative_error # NegInf
              /\ (\E i \in ZeroReference : u_pred[i] = Fin(0) \/ IsNaN(u_pred[i]))
                   => IsNaN(relative_error)
              /\ (AllFinite(u_pred) /\ \A i \in ZeroReference : u_pred[i] # Fin(0))
                   => relative_error = PosInf

\* the test grid holds x = 0 and an inner point; the error is small, finite
\* and positive, the relative error infinite
C17_Witness ==
    /\ pc = "evaluated" /\ x_test[1] = 0 /\ UExact[2] # Fin(0)
    /\ AllFinite(u_pred) /\ u_pred[1] # Fin(0)
    /\ IsFinite(mse) /\ mse.v > 0
    /\ relative_error = PosInf

(***************************************************************************)
(* The gradient accumulators of the batch tensors.                         *)
(***************************************************************************)
Contributions(k) == [x |-> k, t |-> k]

\* C18: wave_pinn_loss makes x_train and t_train leaves that require grad, so
\* every backward adds one contribution to the accumulator of each; zero_grad
\* clears the parameter gradients and leaves these accumulators alone, and no
\* other statement touches them: after k iterations that were not halted they
\* hold k contributions.  The loss is the evaluator's value on the batch
\* coordinates and the current parameters, and the update is Adam's on the
\* parameter gradient: neither reads the accumulators.
C18_BatchGradientsAccumulate ==
    /\ [][/\ batch_grad' # batch_grad => pc = "backward"
          /\ pc = "backward" =>
               batch_grad' = Contributions(batch_grad.x + 1)
          /\ pc = "zero_grad" => (grad' = ZeroGradient /\ batch_grad' = batch_grad)
          /\ pc = "step" => (params' = AdamParams(params, grad)
                             /\ opt' = AdamState(opt, grad))]_vars
    /\ [](pc \in {"check", "backward", "clip", "step", "report", "done"} =>
            (x_req /\ t_req))
    /\ [](pc = "for" => batch_grad = Contributions(it))
    /\ [](pc \in {"zero_grad", "loss", "check", "backward"} =>
            batch_grad = Contributions(epoch))
    /\ [](pc \in {"clip", "step", "report"} => batch_grad = Contributions(epoch + 1))
    /\ [](pc = "done" => batch_grad = Contributions(opt.step))
    /\ [](pc = "check" => (loss = total_loss(ev, x_train) /\ ev \in Forward(params)))

\* three contributions are held when the parameter gradients are cleared
C18_Witness ==
    /\ pc = "loss" /\ epoch = 3
    /\ grad = ZeroGradient /\ batch_grad = Contributions(3)

====
